---------------------------- MODULE Spec2Model ----------------------------
(***************************************************************************)
(* Model of the leaderboard engine of big-yek-monthly-cup-backend:         *)
(*   src/src/util/leaderboard.ts   getPointsByResult, isQualified,         *)
(*                                 updateResults, updateLeaderboard        *)
(*   src/src/controllers/admin.ts  updateQualifier, clearQualifier,        *)
(*                                 deleteQualifier                         *)
(*   src/prisma/schema.prisma      the tables, their keys and cascades     *)
(*                                                                         *)
(* Player ids are opaque strings.  Ids that name an inherited property of  *)
(* a JavaScript object (such as "__proto__" or "constructor") are outside  *)
(* the model: the lookup map[id] of leaderboard.ts:113 is modelled for     *)
(* ids that are own properties of the map or absent from it.               *)
(***************************************************************************)
EXTENDS Integers, Sequences, FiniteSets, TLC

VARIABLES
    cups,        \* table Cup with its Leaderboard: cup id -> leaderboard id, or NoLeaderboard
    qualifiers,  \* table Qualifier: qualifier id -> cup id
    results,     \* table QualifierResult: a set of rows
    entries,     \* table LeaderboardEntry: a set of rows
    run,         \* the invocations of updateLeaderboard: run id -> its locals
    hist,        \* history of the runs (what a reader saw, what the runs stored)
    scored       \* one evaluation of the scoring function: its argument and its result

vars == <<cups, qualifiers, results, entries, run, hist, scored>>

-----------------------------------------------------------------------------
(* Scoring: leaderboard.ts:15-16, 59-79                                    *)

POINT_LIMIT_SERVER_ONE == 6969
POINT_LIMIT_SERVER_TWO == 4500

getPointsByResultStrictLimit(result) ==
    IF result.server = 1 THEN
        IF result.position >= 1 /\ result.position <= 3 THEN 50000
        ELSE IF result.position = 4 THEN 15000
        ELSE IF result.position = 5 THEN 10000
        ELSE IF result.points > POINT_LIMIT_SERVER_ONE THEN 7500
        ELSE result.points
    ELSE IF result.server = 2 THEN
        IF result.position = 1 THEN 6500
        ELSE IF result.position = 2 THEN 6000
        ELSE IF result.position = 3 THEN 5500
        ELSE IF result.points > POINT_LIMIT_SERVER_TWO THEN 5000
        ELSE result.points
    ELSE 0

getPointsByResult(result) ==
    IF result.server = 1 THEN
        IF result.position >= 1 /\ result.position <= 3 THEN 50000
        ELSE IF result.position = 4 THEN 15000
        ELSE IF result.position = 5 THEN 10000
        ELSE IF result.points >= POINT_LIMIT_SERVER_ONE THEN 7500
        ELSE result.points
    ELSE IF result.server = 2 THEN
        IF result.position = 1 THEN 6500
        ELSE IF result.position = 2 THEN 6000
        ELSE IF result.position = 3 THEN 5500
        ELSE IF result.points >= POINT_LIMIT_SERVER_TWO THEN 5000
        ELSE result.points
    ELSE 0

isQualified(result) ==
    result.position >= 1 /\ result.position <= 3 /\ result.server = 1

-----------------------------------------------------------------------------
(* Values                                                                  *)

\* schema.prisma:30: a cup whose leaderboard is null (ids start at 1)
NoLeaderboard == 0

Range(seq) == {seq[i] : i \in 1..Len(seq)}

\* All orders of the elements of a finite set.
Perms(S) ==
    {f \in [1..Cardinality(S) -> S] : \A i, j \in 1..Cardinality(S) : f[i] = f[j] => i = j}

RECURSIVE Concat(_, _)
Concat(seqs, n) == IF n = 0 THEN <<>> ELSE Concat(seqs, n - 1) \o seqs[n]

\* schema.prisma:48: the key of a QualifierResult row
ResultKey(r) == <<r.playerId, r.qualifierId, r.server>>

\* schema.prisma:95: the key of a LeaderboardEntry row
EntryKey(e) == <<e.playerId, e.leaderboardId>>

UniqueKeys(rows) == \A a, b \in rows : ResultKey(a) = ResultKey(b) => a = b

\* The rows of one player by ascending (qualifierId, server).
RECURSIVE RowsInKeyOrder(_)
RowsInKeyOrder(rows) ==
    IF rows = {} THEN <<>>
    ELSE LET first == CHOOSE r \in rows : \A o \in rows :
                          \/ r.qualifierId < o.qualifierId
                          \/ r.qualifierId = o.qualifierId /\ r.server <= o.server
         IN <<first>> \o RowsInKeyOrder(rows \ {first})

-----------------------------------------------------------------------------
(* updateLeaderboard, the reads: leaderboard.ts:82-101                     *)

\* database.qualifierResult.findMany({where: {qualifier: {cupId}}}), the rows found
ResultsOfCup(table, quals, cupId) ==
    {r \in table : r.qualifierId \in DOMAIN quals /\ quals[r.qualifierId] = cupId}

\* The query has no orderBy, so the store may return the rows in any order.  The
\* loop of lines 111-129 adds and ORs per player, so all that an order decides is
\* in which order the players first appear: the model returns the rows player by
\* player, for every order of the players.
FindManyOrders(rows) ==
    LET players == {r.playerId : r \in rows}
    IN {Concat([i \in 1..Cardinality(players) |->
                    RowsInKeyOrder({r \in rows : r.playerId = order[i]})],
               Cardinality(players)) : order \in Perms(players)}

-----------------------------------------------------------------------------
(* updateLeaderboard, the computation: leaderboard.ts:109-150              *)

NewEntry(id, leaderboardId) ==
    [qualified |-> FALSE, points |-> 0, playerId |-> id,
     leaderboardId |-> leaderboardId, position |-> 0]

\* The map of line 109 keeps its keys in insertion order: a sequence of entries.
MapIndex(map, id) ==
    IF \E i \in 1..Len(map) : map[i].playerId = id
    THEN CHOOSE i \in 1..Len(map) : map[i].playerId = id
    ELSE 0

\* A bug: the flag of the last result wins (entry.qualified = qualified).
AccumulateLastFlag(map, result, leaderboardId) ==
    LET i == MapIndex(map, result.playerId)
        entry == IF i = 0 THEN NewEntry(result.playerId, leaderboardId) ELSE map[i]
        next == [entry EXCEPT !.points = @ + getPointsByResult(result),
                              !.qualified = isQualified(result)]
    IN IF i = 0 THEN Append(map, next) ELSE [map EXCEPT ![i] = next]

\* One pass of the loop body, lines 112-128.
Accumulate(map, result, leaderboardId) ==
    LET i == MapIndex(map, result.playerId)
        entry == IF i = 0 THEN NewEntry(result.playerId, leaderboardId) ELSE map[i]
        next == [entry EXCEPT !.points = @ + getPointsByResult(result),
                              !.qualified = IF isQualified(result) THEN TRUE ELSE @]
    IN IF i = 0 THEN Append(map, next) ELSE [map EXCEPT ![i] = next]

\* The loop of lines 111-129 over the first n results.
RECURSIVE BuildMap(_, _, _)
BuildMap(allResultsOfCup, n, leaderboardId) ==
    IF n = 0 THEN <<>>
    ELSE Accumulate(BuildMap(allResultsOfCup, n - 1, leaderboardId),
                    allResultsOfCup[n], leaderboardId)

\* Array.prototype.sort is stable: an entry goes behind all entries that have at
\* least its points (comparator b.points - a.points, line 132).
InsertByPoints(sorted, entry) ==
    LET k == Cardinality({i \in 1..Len(sorted) : sorted[i].points >= entry.points})
    IN SubSeq(sorted, 1, k) \o <<entry>> \o SubSeq(sorted, k + 1, Len(sorted))

RECURSIVE SortByPoints(_, _)
SortByPoints(map, n) ==
    IF n = 0 THEN <<>> ELSE InsertByPoints(SortByPoints(map, n - 1), map[n])

\* Lines 134-136.  previousAmount is <<>> while undefined, <<points>> after.
RankInit == [currentRank |-> 1, previousAmount |-> <<>>, rankCount |-> 0]

\* A bug: dense ranks (currentRank++ in place of currentRank += rankCount).
RankStepDense(s, entry) ==
    LET t == IF entry.qualified THEN [s EXCEPT !.rankCount = @ + 1]
             ELSE IF s.previousAmount # <<entry.points>>
                  THEN [s EXCEPT !.currentRank = @ + (IF s.rankCount = 0 THEN 0 ELSE 1),
                                 !.rankCount = 1]
                  ELSE [s EXCEPT !.rankCount = @ + 1]
    IN [t EXCEPT !.previousAmount = <<entry.points>>]

\* A bug: the rank restarts at the block size (currentRank = rankCount).
RankStepAssign(s, entry) ==
    LET t == IF entry.qualified THEN [s EXCEPT !.rankCount = @ + 1]
             ELSE IF s.previousAmount # <<entry.points>>
                  THEN [s EXCEPT !.currentRank = s.rankCount, !.rankCount = 1]
                  ELSE [s EXCEPT !.rankCount = @ + 1]
    IN [t EXCEPT !.previousAmount = <<entry.points>>]

\* One pass of the loop body, lines 139-149: the counters after the entry, whose
\* position is the new currentRank.
RankStep(s, entry) ==
    LET t == IF entry.qualified THEN [s EXCEPT !.rankCount = @ + 1]
             ELSE IF s.previousAmount # <<entry.points>>
                  THEN [s EXCEPT !.currentRank = @ + s.rankCount, !.rankCount = 1]
                  ELSE [s EXCEPT !.rankCount = @ + 1]
    IN [t EXCEPT !.previousAmount = <<entry.points>>]

RECURSIVE RankState(_, _)
RankState(leaderboard, n) ==
    IF n = 0 THEN RankInit ELSE RankStep(RankState(leaderboard, n - 1), leaderboard[n])

\* Lines 131-150: the sorted array with every entry's position set.
Ranked(map) ==
    LET leaderboard == SortByPoints(map, Len(map))
    IN [i \in 1..Len(leaderboard) |->
           [leaderboard[i] EXCEPT !.position = RankState(leaderboard, i).currentRank]]

\* Lines 109-150 for the rows read: the array `leaderboard` after the ranking.
ComputeLeaderboard(allResultsOfCup, leaderboardId) ==
    Ranked(BuildMap(allResultsOfCup, Len(allResultsOfCup), leaderboardId))

-----------------------------------------------------------------------------
(* updateLeaderboard as a process: one step per await, leaderboard.ts:81-157 *)

RunIds == {1, 2}

IdleRun ==
    [pc |-> "idle", cupId |-> 0, leaderboardId |-> NoLeaderboard,
     allResultsOfCup |-> <<>>, leaderboard |-> <<>>]

NoHist == [calls |-> 0, before |-> {}, first |-> <<>>, requests |-> 0, response |-> "none"]

NoScore == [result |-> [server |-> 0, position |-> 0, points |-> 0],
            done |-> FALSE, points |-> 0, qualified |-> FALSE]

\* A variant with a fault: no check of cup.leaderboard (as with cup.leaderboard?.id).
CupLookupUnchecked(cupId) ==
    IF cupId \notin DOMAIN cups THEN [pc |-> "error", leaderboardId |-> NoLeaderboard]
    ELSE [pc |-> "findMany", leaderboardId |-> cups[cupId]]

\* Lines 82-93: the cup with its leaderboard, or the error thrown.
CupLookup(cupId) ==
    IF cupId \notin DOMAIN cups THEN [pc |-> "error", leaderboardId |-> NoLeaderboard]
    ELSE IF cups[cupId] = NoLeaderboard
         THEN [pc |-> "error", leaderboardId |-> NoLeaderboard]
         ELSE [pc |-> "findMany", leaderboardId |-> cups[cupId]]

\* Lines 103-107: deleteMany({where: {leaderboardId}})
EntriesAfterDelete(stored, leaderboardId) ==
    {e \in stored : e.leaderboardId # leaderboardId}

\* Lines 152-154: createMany is one INSERT, refused as a whole when a row's key
\* (schema.prisma:95) is already stored.
CreateManyFails(stored, rows) ==
    \E e \in rows : \E x \in stored : EntryKey(e) = EntryKey(x)

\* updateLeaderboard(cupId) is called (admin.ts:213, 236, 294).
Call(k, cupId) ==
    /\ run[k].pc \in {"idle", "done", "error"}
    /\ run' = [run EXCEPT ![k] = [IdleRun EXCEPT !.pc = "findUnique", !.cupId = cupId]]
    /\ hist' = [hist EXCEPT !.calls = @ + 1, !.before = entries]
    /\ UNCHANGED <<cups, qualifiers, results, entries, scored>>

\* Lines 82-93
FindUnique(k) ==
    /\ run[k].pc = "findUnique"
    /\ LET cup == CupLookup(run[k].cupId)
       IN run' = [run EXCEPT ![k].pc = cup.pc, ![k].leaderboardId = cup.leaderboardId]
    /\ UNCHANGED <<cups, qualifiers, results, entries, hist, scored>>

\* Lines 95-101
FindMany(k) ==
    /\ run[k].pc = "findMany"
    /\ \E rows \in FindManyOrders(ResultsOfCup(results, qualifiers, run[k].cupId)) :
           run' = [run EXCEPT ![k].pc = "deleteMany", ![k].allResultsOfCup = rows]
    /\ UNCHANGED <<cups, qualifiers, results, entries, hist, scored>>

\* Lines 103-107
DeleteMany(k) ==
    /\ run[k].pc = "deleteMany"
    /\ entries' = EntriesAfterDelete(entries, run[k].leaderboardId)
    /\ run' = [run EXCEPT ![k].pc = "createMany"]
    /\ UNCHANGED <<cups, qualifiers, results, hist, scored>>

\* Lines 109-156: the computation runs without an await, then createMany.
CreateMany(k) ==
    /\ run[k].pc = "createMany"
    /\ LET leaderboard == ComputeLeaderboard(run[k].allResultsOfCup, run[k].leaderboardId)
           failed == CreateManyFails(entries, Range(leaderboard))
       IN /\ run' = [run EXCEPT ![k].pc = IF failed THEN "error" ELSE "done",
                                ![k].leaderboard = leaderboard]
          /\ entries' = IF failed THEN entries ELSE entries \cup Range(leaderboard)
          /\ hist' = IF ~failed /\ hist.first = <<>>
                     THEN [hist EXCEPT !.first = <<entries \cup Range(leaderboard)>>]
                     ELSE hist
    /\ UNCHANGED <<cups, qualifiers, results, scored>>

-----------------------------------------------------------------------------
(* SpecScore: the scoring function on one result                           *)

ScoreServers == 0..3
ScorePositions == -1..6
ScorePoints == {-1, 0, 100, 4499, 4500, 4501, 6968, 6969, 6970}

InitScore ==
    /\ cups = <<>> /\ qualifiers = <<>> /\ results = {} /\ entries = {}
    /\ run = [k \in RunIds |-> IdleRun]
    /\ hist = NoHist
    /\ \E sv \in ScoreServers, pos \in ScorePositions, pts \in ScorePoints :
           scored = [NoScore EXCEPT !.result = [server |-> sv, position |-> pos, points |-> pts]]

Score ==
    /\ ~scored.done
    /\ scored' = [scored EXCEPT !.done = TRUE,
                                !.points = getPointsByResult(scored.result),
                                !.qualified = isQualified(scored.result)]
    /\ UNCHANGED <<cups, qualifiers, results, entries, run, hist>>

NextScore == Score

SpecScore == InitScore /\ [][NextScore]_vars

\* The award table: server 1 gives 50000 for the positions 1 to 3, 15000 for
\* position 4, 10000 for position 5, else 7500 from 6969 raw points on, else the
\* raw points; server 2 gives 6500, 6000, 5500 for the positions 1, 2, 3, else
\* 5000 from 4500 raw points on, else the raw points; any other server gives 0.
AwardTable(server, position, points) ==
    CASE server = 1 /\ position \in 1..3 -> 50000
      [] server = 1 /\ position = 4 -> 15000
      [] server = 1 /\ position = 5 -> 10000
      [] server = 1 /\ position \notin 1..5 /\ points >= 6969 -> 7500
      [] server = 1 /\ position \notin 1..5 /\ points < 6969 -> points
      [] server = 2 /\ position = 1 -> 6500
      [] server = 2 /\ position = 2 -> 6000
      [] server = 2 /\ position = 3 -> 5500
      [] server = 2 /\ position \notin 1..3 /\ points >= 4500 -> 5000
      [] server = 2 /\ position \notin 1..3 /\ points < 4500 -> points
      [] server \notin {1, 2} -> 0

\* C7: for every server, position and raw points, getPointsByResult returns the
\* value of the award table, and isQualified holds exactly for server 1 with a
\* position from 1 to 3.
C7_AwardTable ==
    scored.done =>
        /\ scored.points =
              AwardTable(scored.result.server, scored.result.position, scored.result.points)
        /\ scored.qualified <=>
              (scored.result.server = 1 /\ scored.result.position \in 1..3)

\* Position 0 on server 1 with exactly 6969 raw points has been scored 7500.
C7_Witness ==
    /\ scored.done
    /\ scored.result = [server |-> 1, position |-> 0, points |-> 6969]
    /\ scored.points = 7500
    /\ ~scored.qualified

-----------------------------------------------------------------------------
(* Spec: one cup's leaderboard recomputed, step by step, for every small    *)
(* set of raw results.  Cup 1 has leaderboard 1 and qualifier 1; cup 2 has  *)
(* qualifier 2 and no leaderboard, as createCup leaves a cup between its    *)
(* lines 40 and 49; there is no cup 3.  The leaderboard starts empty: no    *)
(* run has recomputed it since the results were stored.                     *)

MaxResults == 3
MaxCalls == 2

Players == {"ann", "bob", "cyd"}
Servers == {1, 2}
\* <<position, points>> of a row
Kinds == {<<1, 0>>, <<9, 4500>>}

Row(key, kind) ==
    [playerId |-> key[1], qualifierId |-> key[2], server |-> key[3],
     position |-> kind[1], points |-> kind[2]]

\* Every table of at most n rows with the given keys and kinds.
Tables(keys, kinds, n) ==
    UNION {{{Row(k, f[k]) : k \in K} : f \in [K -> kinds]} :
              K \in {K \in SUBSET keys : Cardinality(K) <= n}}

Init ==
    /\ cups = (1 :> 1) @@ (2 :> NoLeaderboard)
    /\ qualifiers = (1 :> 1) @@ (2 :> 2)
    /\ results \in Tables(Players \X {1, 2} \X Servers, Kinds, MaxResults)
    /\ entries = {}
    /\ run = [k \in RunIds |-> IdleRun]
    /\ hist = NoHist
    /\ scored = NoScore

Next ==
    \/ \E cupId \in 1..3 : hist.calls < MaxCalls /\ Call(1, cupId)
    \/ FindUnique(1)
    \/ FindMany(1)
    \/ DeleteMany(1)
    \/ CreateMany(1)

Spec == Init /\ [][Next]_vars

-----------------------------------------------------------------------------
(* Properties of one run, under Spec                                       *)

RECURSIVE SumOfPoints(_)
SumOfPoints(rows) ==
    IF rows = {} THEN 0
    ELSE LET r == CHOOSE r \in rows : TRUE
         IN getPointsByResult(r) + SumOfPoints(rows \ {r})

RowsOf(player, cupId) ==
    {r \in ResultsOfCup(results, qualifiers, cupId) : r.playerId = player}

Board(leaderboardId) == {e \in entries : e.leaderboardId = leaderboardId}

Finished == run[1].pc = "done"

C8_CompetitionRanks ==
    (Finished /\ \A e \in Board(run[1].leaderboardId) : ~e.qualified) =>
        \A e \in Board(run[1].leaderboardId) :
            /\ e.position =
                  1 + Cardinality({x \in Board(run[1].leaderboardId) : x.points > e.points})
            /\ \A x \in Board(run[1].leaderboardId) :
                  x.points = e.points => x.position = e.position

\* Two players tied on rank 1 and a third, with fewer points, on rank 3.
C8_Witness ==
    /\ Finished
    /\ \A e \in Board(1) : ~e.qualified
    /\ \E a, b, c \in Board(1) :
          /\ a # b /\ a.points = b.points /\ a.position = 1 /\ b.position = 1
          /\ c.points < a.points /\ c.position = 3

\* C9: in the sorted array, points never increase, the first entry has rank 1
\* and the rank never decreases from an entry to the next.
C9_RanksNonDecreasing ==
    Finished =>
        LET lb == run[1].leaderboard
        IN /\ Len(lb) > 0 => lb[1].position = 1
           /\ \A i \in 1..(Len(lb) - 1) :
                 /\ lb[i].points >= lb[i + 1].points
                 /\ lb[i].position <= lb[i + 1].position

\* Three entries, the first of them not qualified, with rising ranks.
C9_Witness ==
    /\ Finished
    /\ Len(run[1].leaderboard) = 3
    /\ ~run[1].leaderboard[1].qualified
    /\ run[1].leaderboard[2].position = 2
    /\ run[1].leaderboard[3].position = 3

BadCup(cupId) == cupId \notin DOMAIN cups \/ cups[cupId] = NoLeaderboard

\* C10: a run for a cup that does not exist, or has no leaderboard, ends in an
\* error straight after the lookup, and the stored entries are those of before.
C10_NoWriteOnBadCup ==
    (run[1].pc # "idle" /\ BadCup(run[1].cupId)) =>
        /\ run[1].pc \in {"findUnique", "error"}
        /\ entries = hist.before

\* A run for the missing cup 3 has failed while cup 1's entries are stored.
C10_Witness ==
    /\ run[1].pc = "error"
    /\ run[1].cupId = 3
    /\ entries # {}

\* A run for cup 2, which has results and no leaderboard, has failed.
C10_WitnessNoLeaderboard ==
    /\ run[1].pc = "error"
    /\ run[1].cupId = 2
    /\ ResultsOfCup(results, qualifiers, 2) # {}
    /\ entries # {}

\* C4: while a run is under way, a reader of the cup's leaderboard sees the
\* entries of before the run or the newly computed ones.
C4_ReaderSeesOldOrNew ==
    run[1].pc \in {"deleteMany", "createMany"} =>
        LET seen == Board(run[1].leaderboardId)
            old == {e \in hist.before : e.leaderboardId = run[1].leaderboardId}
            new == Range(ComputeLeaderboard(run[1].allResultsOfCup, run[1].leaderboardId))
        IN seen = old \/ seen = new

-----------------------------------------------------------------------------
(* updateLeaderboard run from its call to its end with no other request in  *)
(* between: every outcome, one per order of the rows read.                  *)

RunOutcomes(cupId, table, quals, stored) ==
    LET cup == CupLookup(cupId)
    IN IF cup.pc = "error"
       THEN {[run |-> [IdleRun EXCEPT !.pc = "error", !.cupId = cupId], entries |-> stored]}
       ELSE {LET leaderboard == ComputeLeaderboard(rows, cup.leaderboardId)
                 kept == EntriesAfterDelete(stored, cup.leaderboardId)
                 failed == CreateManyFails(kept, Range(leaderboard))
             IN [run |-> [pc |-> IF failed THEN "error" ELSE "done", cupId |-> cupId,
                          leaderboardId |-> cup.leaderboardId,
                          allResultsOfCup |-> rows, leaderboard |-> leaderboard],
                 entries |-> IF failed THEN kept ELSE kept \cup Range(leaderboard)]
             : rows \in FindManyOrders(ResultsOfCup(table, quals, cupId))}

-----------------------------------------------------------------------------
(* SpecSeason: a cup with its three qualifiers (admin.ts:40-46) whose       *)
(* players collect podium and fourth places on server 1 and a threshold     *)
(* score on server 2; the leaderboard is recomputed, run after run, over    *)
(* unchanged results.                                                       *)

SeasonKeys == Players \X {<<1, 1>>, <<2, 1>>, <<3, 1>>, <<1, 2>>}

\* The rows a player may have in each qualifier and server.
SeasonKinds(qualifierId, server) ==
    IF server = 2 THEN {<<9, 4500>>}
    ELSE IF qualifierId = 1 THEN {<<1, 0>>, <<4, 0>>}
    ELSE {<<4, 0>>}

SeasonTables ==
    UNION {{{[playerId |-> k[1], qualifierId |-> k[2][1], server |-> k[2][2],
              position |-> f[k][1], points |-> f[k][2]] : k \in K}
            : f \in {g \in [K -> {<<1, 0>>, <<4, 0>>, <<9, 4500>>}] :
                        \A k \in K : g[k] \in SeasonKinds(k[2][1], k[2][2])}}
           : K \in SUBSET SeasonKeys}

InitSeason ==
    /\ cups = (1 :> 1)
    /\ qualifiers = (1 :> 1) @@ (2 :> 1) @@ (3 :> 1)
    /\ results \in SeasonTables
    /\ entries = {}
    /\ run = [k \in RunIds |-> IdleRun]
    /\ hist = NoHist
    /\ scored = NoScore

\* updateLeaderboard(1), called and run to its end.
updateLeaderboard ==
    /\ hist.calls < MaxCalls
    /\ \E out \in RunOutcomes(1, results, qualifiers, entries) :
          /\ run' = [run EXCEPT ![1] = out.run]
          /\ entries' = out.entries
          /\ hist' = [hist EXCEPT !.calls = @ + 1, !.before = entries,
                                  !.first = IF @ = <<>> THEN <<out.entries>> ELSE @]
    /\ UNCHANGED <<cups, qualifiers, results, scored>>

NextSeason == updateLeaderboard

SpecSeason == InitSeason /\ [][NextSeason]_vars

\* C1: every qualified entry has rank 1, and the first entry of the sorted
\* array that is not qualified has rank (number of qualified entries) + 1 when
\* there is a qualified entry, and rank 1 when there is none.
C1_QualifiedBlock ==
    Finished =>
        LET lb == run[1].leaderboard
            nq == Cardinality({i \in 1..Len(lb) : lb[i].qualified})
            others == {i \in 1..Len(lb) : ~lb[i].qualified}
        IN /\ \A i \in 1..Len(lb) : lb[i].qualified => lb[i].position = 1
           /\ others # {} =>
                 LET i == CHOOSE i \in others : \A j \in others : i <= j
                 IN lb[i].position = IF nq >= 1 THEN nq + 1 ELSE 1

\* C5: a second run over unchanged results stores what the first run stored.
C5_SameEntriesAgain ==
    (Finished /\ hist.calls >= 2) => entries = hist.first[1]

-----------------------------------------------------------------------------
(* updateResults: leaderboard.ts:18-57.  A content row is                   *)
(* [position, points, login]; the name and the zone only feed the Player    *)
(* upserts of lines 23-38, which make sure every login has its Player row.  *)

ResultRows(qualifierId, server, content) ==
    {[playerId |-> content[i].login, points |-> content[i].points,
      position |-> content[i].position, qualifierId |-> qualifierId, server |-> server]
     : i \in 1..Len(content)}

\* Lines 40-56: deleteMany, then createMany, which is refused as a whole when two
\* rows share the key (schema.prisma:48) or the qualifier does not exist
\* (schema.prisma:44); the rows deleted before stay deleted.
UpdateResultsOutcome(table, quals, qualifierId, server, content) ==
    LET kept == {r \in table : ~(r.qualifierId = qualifierId /\ r.server = server)}
        refused == \/ qualifierId \notin DOMAIN quals
                   \/ \E i, j \in 1..Len(content) :
                         i # j /\ content[i].login = content[j].login
    IN IF refused THEN [ok |-> FALSE, results |-> kept]
       ELSE [ok |-> TRUE, results |-> kept \cup ResultRows(qualifierId, server, content)]

-----------------------------------------------------------------------------
(* SpecAdmin: the admin requests on qualifiers, one after the other, each   *)
(* from its first line to its response.  Cups 1 and 2 have leaderboards 1   *)
(* and 2 and qualifiers 1 and 2; ids 3 name no cup and no qualifier.        *)

MaxRequests == 2
MaxRows == 2

AdminPlayers == {"ann", "bob"}

ContentRows ==
    {[position |-> kind[1], points |-> kind[2], login |-> p] : kind \in Kinds, p \in AdminPlayers}

\* dataSchema, admin.ts:185-196: at least one row
Contents == UNION {[1..n -> ContentRows] : n \in 1..MaxRows}

InitAdmin ==
    /\ cups = (1 :> 1) @@ (2 :> 2)
    /\ qualifiers = (1 :> 1) @@ (2 :> 2)
    /\ results = {}
    /\ entries = {}
    /\ run = [k \in RunIds |-> IdleRun]
    /\ hist = NoHist
    /\ scored = NoScore

\* What a request leaves behind once updateLeaderboard(cupId) has been awaited.
Aggregated(cupId, table, quals, response) ==
    \E out \in RunOutcomes(cupId, table, quals, entries) :
        /\ entries' = out.entries
        /\ run' = [run EXCEPT ![1] = out.run]
        /\ hist' = [hist EXCEPT !.requests = @ + 1, !.calls = @ + 1, !.before = entries,
                                !.response = IF out.run.pc = "done" THEN response ELSE "error"]

Failed ==
    /\ hist' = [hist EXCEPT !.requests = @ + 1, !.response = "error"]
    /\ UNCHANGED <<entries, run>>

\* admin.ts:198-219
updateQualifier(qualifierId, cupId, server, content) ==
    /\ hist.requests < MaxRequests
    /\ LET stored == UpdateResultsOutcome(results, qualifiers, qualifierId, server, content)
       IN /\ results' = stored.results
          /\ IF stored.ok
             THEN Aggregated(cupId, stored.results, qualifiers, "success")
             ELSE Failed
    /\ UNCHANGED <<cups, qualifiers, scored>>

\* admin.ts:221-244
clearQualifier(qualifierId, cupId) ==
    /\ hist.requests < MaxRequests
    /\ results' = {r \in results : r.qualifierId # qualifierId}
    /\ Aggregated(cupId, results', qualifiers, "success")
    /\ UNCHANGED <<cups, qualifiers, scored>>

\* admin.ts:285-300: delete throws when there is no such qualifier; the
\* qualifier's results go with it (onDelete: Cascade, schema.prisma:44).
deleteQualifier(qualifierId, cupId) ==
    /\ hist.requests < MaxRequests
    /\ IF qualifierId \in DOMAIN qualifiers
       THEN /\ qualifiers' = [q \in DOMAIN qualifiers \ {qualifierId} |-> qualifiers[q]]
            /\ results' = {r \in results : r.qualifierId # qualifierId}
            /\ Aggregated(cupId, results', qualifiers', "success")
       ELSE /\ Failed
            /\ UNCHANGED <<qualifiers, results>>
    /\ UNCHANGED <<cups, scored>>

NextAdmin ==
    \/ \E qualifierId \in 1..3, cupId \in 1..3, server \in Servers, content \in Contents :
          updateQualifier(qualifierId, cupId, server, content)
    \/ \E qualifierId \in 1..3, cupId \in 1..3 : clearQualifier(qualifierId, cupId)
    \/ \E qualifierId \in 1..3, cupId \in 1..3 : deleteQualifier(qualifierId, cupId)

SpecAdmin == InitAdmin /\ [][NextAdmin]_vars

\* The leaderboards that a run of updateLeaderboard computes from the results
\* stored now.
UpToDate(cupId) ==
    {Range(ComputeLeaderboard(rows, cups[cupId]))
     : rows \in FindManyOrders(ResultsOfCup(results, qualifiers, cupId))}

\* C2: between two requests, every cup's stored leaderboard is the aggregation of
\* the raw results stored under the cup's qualifiers.
C2_LeaderboardsUpToDate ==
    \A cupId \in DOMAIN cups : Board(cups[cupId]) \in UpToDate(cupId)

-----------------------------------------------------------------------------
(* SpecRace: two requests recompute the leaderboard of cup 1 at the same    *)
(* time; their runs interleave at the awaits, and one upload may complete   *)
(* while a run has yet to read the results.                                 *)

MaxUploads == 1

InitRace ==
    /\ cups = (1 :> 1)
    /\ qualifiers = (1 :> 1)
    /\ results \in Tables(AdminPlayers \X {1} \X {1}, Kinds, MaxRows)
    /\ entries \in {Range(ComputeLeaderboard(rows, 1))
                    : rows \in FindManyOrders(ResultsOfCup(results, qualifiers, 1))}
    /\ run = [k \in RunIds |-> IdleRun]
    /\ hist = NoHist
    /\ scored = NoScore

Start(k) == run[k].pc = "idle" /\ Call(k, 1)

\* updateResults (leaderboard.ts:18-57) of another request, from its first line
\* to its last.
updateResults(qualifierId, server, content) ==
    /\ hist.requests < MaxUploads
    /\ \E k \in RunIds : run[k].pc \in {"idle", "findUnique", "findMany"}
    /\ results' = UpdateResultsOutcome(results, qualifiers, qualifierId, server, content).results
    /\ hist' = [hist EXCEPT !.requests = @ + 1]
    /\ UNCHANGED <<cups, qualifiers, entries, run, scored>>

NextRace ==
    \/ \E k \in RunIds : Start(k)
    \/ \E k \in RunIds : FindUnique(k)
    \/ \E k \in RunIds : FindMany(k)
    \/ \E k \in RunIds : DeleteMany(k)
    \/ \E k \in RunIds : CreateMany(k)
    \/ \E content \in Contents : updateResults(1, 1, content)

SpecRace == InitRace /\ [][NextRace]_vars

\* C3: once both runs have ended, neither has ended in an error and the stored
\* leaderboard is one that a run computes from the results stored then.
C3_AsIfOneAfterTheOther ==
    (\A k \in RunIds : run[k].pc \in {"done", "error"}) =>
        /\ \A k \in RunIds : run[k].pc = "done"
        /\ Board(1) \in UpToDate(1)

=============================================================================
